---- MODULE Spec2Model ----
(***************************************************************************)
(* A model of extract_docs_improved.py: the Markdown normalisation         *)
(* pipeline (extract_text_from_markdown), the table formatter              *)
(* (format_markdown_table) and the corpus builder (process_documentation). *)
(*                                                                         *)
(* A Python str is modelled as a sequence of characters, each character a  *)
(* one-character TLA+ string.  The source spells its line separator        *)
(* '\\n' and its separator alphabet '|\\t -:'; in Python those literals     *)
(* hold a backslash followed by the letter n (or t), not a newline (or a   *)
(* tab), and the model keeps them as the two characters they are.          *)
(***************************************************************************)
EXTENDS Integers, Sequences, FiniteSets, TLC

VARIABLES
    \* format_markdown_table
    table_text, formatted_table, fpc,
    \* extract_text_from_markdown
    markdown_content, content_without_frontmatter, cleaned_markdown_content,
    table_placeholders, text, final_text, returned, pc, raised,
    \* the table loop of extract_text_from_markdown (step 12)
    lines, i, processed_content,
    \* process_documentation
    files, file_idx, documentation_data, processed_count, clean_text,
    output_file, open_count, log, bpc

fmtVars == <<table_text, formatted_table, fpc>>
normVars == <<markdown_content, content_without_frontmatter,
              cleaned_markdown_content, text, final_text, returned, pc, raised>>
loopVars == <<lines, i, processed_content>>
buildVars == <<files, file_idx, documentation_data, processed_count,
               clean_text, output_file, open_count, log, bpc>>
vars == <<fmtVars, normVars, table_placeholders, loopVars, buildVars>>

----------------------------------------------------------------------------
(* Characters.  A backtick cannot be written inside a TLA+ string, so the  *)
(* backtick character is the atom "BT".                                    *)
NL == "\n"
BS == "\\"
TAB == "\t"
BT == "BT"
PIPE == "|"

\* a Python str: a finite sequence of characters
IsString(s) == DOMAIN s = 1..Len(s) /\ \A k \in 1..Len(s) : s[k] \in STRING

\* str.strip() and str.splitlines(): the whitespace of the model's alphabet
IsSpace(c) == c \in {" ", TAB, NL}

\* the line separator the source writes as '\\n': a backslash, then n
SEP == <<BS, "n">>

----------------------------------------------------------------------------
(* Python's str operations, on sequences of characters.                    *)

\* s[i:i+len(p)] == p
MatchAt(s, p, k) ==
    /\ k >= 1
    /\ k + Len(p) - 1 <= Len(s)
    /\ \A j \in 1..Len(p) : s[k + j - 1] = p[j]

StartsWith(s, p) == MatchAt(s, p, 1)

EndsWith(s, p) == Len(p) <= Len(s) /\ MatchAt(s, p, Len(s) - Len(p) + 1)

\* the least element of a non-empty set of integers
Min(S) == CHOOSE j \in S : \A k \in S : j <= k

\* the greatest element of a non-empty set of integers
Max(S) == CHOOSE j \in S : \A k \in S : j >= k

\* str.strip(): from the first to the last character that is not whitespace
Strip(s) ==
    LET inked == {k \in 1..Len(s) : ~IsSpace(s[k])}
    IN  IF inked = {} THEN <<>> ELSE SubSeq(s, Min(inked), Max(inked))

\* the first index >= k where p occurs in s, 0 when there is none
FindFrom(s, p, k) ==
    LET at == {j \in k..Len(s) : MatchAt(s, p, j)}
    IN  IF at = {} THEN 0 ELSE Min(at)

\* str.find(p), 1-based, 0 when absent
Find(s, p) == FindFrom(s, p, 1)

RECURSIVE SplitAt(_, _, _)
\* the pieces of s[k:], one step per occurrence of sep
SplitAt(s, sep, k) ==
    LET j == FindFrom(s, sep, k)
    IN  IF j = 0 THEN <<SubSeq(s, k, Len(s))>>
        ELSE <<SubSeq(s, k, j - 1)>> \o SplitAt(s, sep, j + Len(sep))

\* str.split(sep): always at least one piece
Split(s, sep) == SplitAt(s, sep, 1)

\* str.splitlines(): splits at real newlines, no empty last line
splitlines(s) ==
    LET parts == Split(s, <<NL>>)
    IN  IF parts[Len(parts)] = <<>> THEN SubSeq(parts, 1, Len(parts) - 1) ELSE parts

RECURSIVE Join(_, _)
\* sep.join(parts)
Join(parts, sep) ==
    IF parts = <<>> THEN <<>>
    ELSE IF Len(parts) = 1 THEN parts[1]
    ELSE parts[1] \o sep \o Join(Tail(parts), sep)

\* str.replace(c, d) for single characters
ReplaceChar(s, c, d) == [k \in 1..Len(s) |-> IF s[k] = c THEN d ELSE s[k]]

\* str.replace(old, new, 1): the first occurrence only
ReplaceFirst(s, old, new) ==
    LET k == Find(s, old)
    IN  IF k = 0 THEN s
        ELSE SubSeq(s, 1, k - 1) \o new \o SubSeq(s, k + Len(old), Len(s))

RECURSIVE ReplaceAllFrom(_, _, _, _)
ReplaceAllFrom(s, old, new, k) ==
    LET j == FindFrom(s, old, k)
    IN  IF j = 0 THEN SubSeq(s, k, Len(s))
        ELSE SubSeq(s, k, j - 1) \o new \o ReplaceAllFrom(s, old, new, j + Len(old))

\* str.replace(old, new) for a non-empty old: every occurrence, left to right
ReplaceAll(s, old, new) == ReplaceAllFrom(s, old, new, 1)

MapStrip(ls) == [k \in 1..Len(ls) |-> Strip(ls[k])]

NonEmpty(ls) == SelectSeq(ls, LAMBDA l : l # <<>>)

\* parts[1:-1]
Inner(parts) == SubSeq(parts, 2, Len(parts) - 1)

----------------------------------------------------------------------------
(* format_markdown_table                                                   *)

\* line 176: [line.strip() for line in table_text.strip().split('\\n') if line.strip()]
TableLines(t) == NonEmpty(MapStrip(Split(Strip(t), SEP)))

\* line 186: the characters of the literal '|\\t -:'
SeparatorChars == {PIPE, BS, "t", " ", "-", ":"}

\* line 186: all(c in '|\\t -:' for c in line)
is_separator(line) == \A k \in 1..Len(line) : line[k] \in SeparatorChars

\* lines 184-188
DataLines(ls) ==
    SelectSeq(Tail(ls), LAMBDA l : ~is_separator(l) /\ Strip(l) # <<>>)

\* line 195
Headers(header_line) == NonEmpty(MapStrip(Inner(Split(header_line, <<PIPE>>))))

\* line 203
Cells(line) == MapStrip(Inner(Split(line, <<PIPE>>)))

RECURSIVE RowText(_, _, _)
\* lines 205-211: the parts of one row, from cell index k (1-based) on
RowText(cells, headers, k) ==
    IF k > Len(cells) THEN <<>>
    ELSE IF cells[k] = <<>> THEN RowText(cells, headers, k + 1)
    ELSE IF k <= Len(headers) /\ headers[k] # <<>>
         THEN <<headers[k] \o <<":", " ">> \o cells[k]>> \o RowText(cells, headers, k + 1)
         ELSE <<cells[k]>> \o RowText(cells, headers, k + 1)

RECURSIVE FormattedLines(_, _)
\* lines 198-213
FormattedLines(data_lines, headers) ==
    IF data_lines = <<>> THEN <<>>
    ELSE LET line == data_lines[1]
             rest == FormattedLines(Tail(data_lines), headers)
         IN  IF StartsWith(line, <<PIPE>>) /\ EndsWith(line, <<PIPE>>)
             THEN LET cells == Cells(line)
                      row_text == RowText(cells, headers, 1)
                  IN  IF cells # <<>> /\ (\E k \in 1..Len(cells) : cells[k] # <<>>)
                         /\ row_text # <<>>
                      THEN <<Join(row_text, <<" ", PIPE, " ">>)>> \o rest
                      ELSE rest
             ELSE rest

\* CleanedText without the replace of the pipes
CleanedText_NoReplace(t) == Strip(t)

\* lines 192 and 217: table_text.replace('|', ' ').strip()
CleanedText(t) == Strip(ReplaceChar(t, PIPE, " "))

\* lines 172-219
format_markdown_table(t) ==
    LET ls == TableLines(t)
    IN  IF Len(ls) < 1 THEN <<>>
        ELSE IF ~StartsWith(ls[1], <<PIPE>>) THEN CleanedText(t)
        ELSE LET formatted_lines == FormattedLines(DataLines(ls), Headers(ls[1]))
             IN  IF formatted_lines = <<>> THEN CleanedText(t)
                 ELSE Join(formatted_lines, SEP)

----------------------------------------------------------------------------
(* Bounded inputs of the table formatter: up to MaxTableLines lines of a   *)
(* small palette, joined by a real newline or by the source's '\\n'.       *)
MaxTableLines == 3

TablePalette ==
    { <<"|", " ", "A", " ", "|", " ", "B", " ", "|">>,
      <<"|", " ", "1", " ", "|", " ", "2", " ", "|">>,
      <<"|", "-", "-", "-", "|", ":", "-", ":", "|">>,
      <<"|", "t", "|">>,
      <<"|", " ", "1", " ", "|", " ", " ", "|", " ", "3", " ", "|">>,
      <<"A", " ", "|", " ", "B", " ">>,
      <<"|">>,
      <<" ", "|", " ", "x">> }

LineSeqs(palette, n) == UNION { [1..k -> palette] : k \in 1..n }

TableInputs ==
    {<<>>} \cup { Join(ls, sep) : ls \in LineSeqs(TablePalette, MaxTableLines),
                                  sep \in {SEP, <<NL>>} }

IdleFmt == table_text = <<>> /\ formatted_table = <<>> /\ fpc = "idle"
IdleNorm ==
    /\ markdown_content = <<>> /\ content_without_frontmatter = <<>>
    /\ cleaned_markdown_content = <<>> /\ text = <<>>
    /\ final_text = <<>> /\ returned = <<>>
    /\ pc = "idle" /\ raised = FALSE
IdleLoop == lines = <<>> /\ i = 0 /\ processed_content = <<>>
IdleBuild ==
    /\ files = <<>> /\ file_idx = 0 /\ documentation_data = <<>>
    /\ processed_count = 0 /\ clean_text = <<>> /\ output_file = "absent"
    /\ open_count = 0 /\ log = <<>> /\ bpc = "idle"

InitFormat ==
    /\ table_text \in TableInputs
    /\ formatted_table = <<>>
    /\ fpc = "call"
    /\ IdleNorm /\ table_placeholders = <<>> /\ IdleLoop /\ IdleBuild

\* one call of format_markdown_table(table_text)
Format ==
    /\ fpc = "call"
    /\ formatted_table' = format_markdown_table(table_text)
    /\ fpc' = "return"
    /\ UNCHANGED <<table_text, normVars, table_placeholders, loopVars, buildVars>>

NextFormat == Format

SpecFormat == InitFormat /\ [][NextFormat]_vars

----------------------------------------------------------------------------
(* The table formatter as the specification words it: lines are the lines  *)
(* of the text, a pure separator is made of pipe, tab, space, dash, colon. *)

ClaimSeparatorChars == {PIPE, TAB, " ", "-", ":"}

ClaimTableLines(t) == NonEmpty(MapStrip(Split(Strip(t), <<NL>>)))

ClaimDataLines(ls) ==
    SelectSeq(Tail(ls), LAMBDA l : \E k \in 1..Len(l) : l[k] \notin ClaimSeparatorChars)

ClaimRows(t) ==
    LET ls == ClaimTableLines(t)
    IN  FormattedLines(ClaimDataLines(ls), Headers(ls[1]))

ClaimHeaderOk(t) ==
    ClaimTableLines(t) # <<>> /\ StartsWith(ClaimTableLines(t)[1], <<PIPE>>)

\* C1: for a table whose header line starts with a pipe, every data row that
\* starts and ends with a pipe and has a non-empty cell yields one output
\* line "label: cell | label: cell", in row order, the lines joined by
\* newlines; so the header | A | B | and the row | 1 | 2 | give A: 1 | B: 2.
C1_RowsFormatted ==
    (fpc = "return" /\ ClaimHeaderOk(table_text) /\ ClaimRows(table_text) # <<>>)
        => formatted_table = Join(ClaimRows(table_text), <<NL>>)

\* the fallback cases of format_markdown_table, as the function finds them
FallbackCase(t) ==
    LET ls == TableLines(t)
    IN  \/ ls = <<>>
        \/ ~StartsWith(ls[1], <<PIPE>>)
        \/ FormattedLines(DataLines(ls), Headers(ls[1])) = <<>>

C5_NeverEmpty ==
    (fpc = "return" /\ table_text # <<>>) => formatted_table # <<>>

----------------------------------------------------------------------------
(* extract_text_from_markdown: the passes, each as a function of the text  *)

DASHES == <<"-", "-", "-">>

RECURSIVE ClosingIndex(_, _)
\* lines 22-26: the first k >= from with lines[k].strip() == '---', 0 when none
ClosingIndex(ls, from) ==
    IF from > Len(ls) THEN 0
    ELSE IF Strip(ls[from]) = DASHES THEN from
    ELSE ClosingIndex(ls, from + 1)

\* lines 16-30: step 1, the frontmatter block
FrontmatterStrip(mc) ==
    LET ls == splitlines(mc)
    IN  IF ls # <<>> /\ Strip(ls[1]) = DASHES
        THEN LET end_frontmatter == ClosingIndex(ls, 2)
             IN  IF end_frontmatter > 0
                 THEN Join(SubSeq(ls, end_frontmatter + 1, Len(ls)), SEP)
                 ELSE mc
        ELSE mc

\* line 39
NotionPrefix ==
    <<"h", "t", "t", "p", "s", ":", "/", "/", "w", "w", "w", ".", "n", "o", "t",
      "i", "o", "n", ".", "s", "o", "/", "n", "8", "n", "/", "F", "r", "o", "n",
      "t", "m", "a", "t", "t", "e", "r", "-">>

\* line 41: f"{key}:" for each key of the list
MetadataKeys ==
    { <<"t", "i", "t", "l", "e", ":">>,
      <<"d", "e", "s", "c", "r", "i", "p", "t", "i", "o", "n", ":">>,
      <<"c", "o", "n", "t", "e", "n", "t", "T", "y", "p", "e", ":">>,
      <<"t", "a", "g", "s", ":">>,
      <<"h", "i", "d", "e", ":">>,
      <<"a", "l", "i", "a", "s", "e", "s", ":">>,
      <<"p", "r", "i", "o", "r", "i", "t", "y", ":">>,
      <<"r", "e", "d", "i", "r", "e", "c", "t", "_", "f", "r", "o", "m", ":">> }

\* lines 37-42
IsMetadataLine(line) ==
    LET stripped_line == Strip(line)
    IN  \/ StartsWith(stripped_line, NotionPrefix)
        \/ \E key \in MetadataKeys : StartsWith(stripped_line, key)

\* lines 33-45
MetadataStrip(c) ==
    Join(SelectSeq(splitlines(c), LAMBDA l : ~IsMetadataLine(l)), SEP)

\* the first index >= k whose character is not in cs (Len(s) + 1 when none)
SkipRun(s, k, cs) == Min({j \in k..(Len(s) + 1) : j > Len(s) \/ s[j] \notin cs})

\* the first index >= k whose character is in cs (Len(s) + 1 when none)
SkipRunNot(s, k, cs) == Min({j \in k..(Len(s) + 1) : j > Len(s) \/ s[j] \in cs})

RECURSIVE SubFrom(_, _, _, _)
\* re.sub over s[k:]: ends[j] is the index after the match that starts at j
\* (0 when the pattern does not match at j); the leftmost match is replaced by
\* repl and the scan goes on after it
SubFrom(s, k, ends, repl) ==
    LET starts == {j \in k..Len(s) : ends[j] # 0}
    IN  IF starts = {} THEN SubSeq(s, k, Len(s))
        ELSE SubSeq(s, k, Min(starts) - 1) \o repl \o SubFrom(s, ends[Min(starts)], ends, repl)

\* re.sub(pattern, repl, s), the pattern given by its matches in s
ReSub(s, ends, repl) == SubFrom(s, 1, ends, repl)

\* open.*?close with re.DOTALL: a minimal span
SpanEnd(s, j, open, close) ==
    IF MatchAt(s, open, j) /\ FindFrom(s, close, j + Len(open)) # 0
    THEN FindFrom(s, close, j + Len(open)) + Len(close)
    ELSE 0

\* line 49: r'```.*?```'
CodeBlockEnd(s, j) == SpanEnd(s, j, <<BT, BT, BT>>, <<BT, BT, BT>>)
RemoveCodeBlocks(c) == ReSub(c, [j \in 1..Len(c) |-> CodeBlockEnd(c, j)], <<>>)

\* line 55: r'`([^`]+)`'
InlineCodeEnd(s, j) ==
    IF s[j] = BT /\ FindFrom(s, <<BT>>, j + 1) > j + 1
    THEN FindFrom(s, <<BT>>, j + 1) + 1
    ELSE 0

\* line 55: re.sub(r'`([^`]+)`', r'\\1', s); the template r'\\1' is an escaped
\* backslash followed by the digit 1, not a reference to group 1
UnwrapInlineCode(c) == ReSub(c, [j \in 1..Len(c) |-> InlineCodeEnd(c, j)], <<BS, "1">>)

\* line 61: r'\\[\\[.*?\\]\\]' reads: a backslash, one character of the class
\* [\\[.*?\\], a backslash, a closing bracket
MacroEnd(s, j) ==
    IF /\ j + 3 <= Len(s)
       /\ s[j] = BS
       /\ s[j + 1] \in {BS, "[", ".", "*", "?"}
       /\ s[j + 2] = BS
       /\ s[j + 3] = "]"
    THEN j + 4
    ELSE 0

\* line 61
RemoveMacros(c) == ReSub(c, [j \in 1..Len(c) |-> MacroEnd(c, j)], <<>>)

\* line 67: r'///.*?///'
ServiceBlockEnd(s, j) == SpanEnd(s, j, <<"/", "/", "/">>, <<"/", "/", "/">>)
RemoveServiceBlocks(c) == ReSub(c, [j \in 1..Len(c) |-> ServiceBlockEnd(c, j)], <<>>)

\* line 73: r'<!--.*?-->'
HtmlCommentEnd(s, j) == SpanEnd(s, j, <<"<", "!", "-", "-">>, <<"-", "-", ">">>)
RemoveHtmlComments(c) == ReSub(c, [j \in 1..Len(c) |-> HtmlCommentEnd(c, j)], <<>>)

\* line 79: r'--8<--\\s*".*?"' reads: --8<--, a backslash, any number of the
\* letter s, a quote, a minimal run, a quote
SnippetEnd(s, j) ==
    IF MatchAt(s, <<"-", "-", "8", "<", "-", "-", BS>>, j)
    THEN LET q == SkipRun(s, j + 7, {"s"})
         IN  IF q <= Len(s) /\ s[q] = "\"" /\ FindFrom(s, <<"\"">>, q + 1) # 0
             THEN FindFrom(s, <<"\"">>, q + 1) + 1
             ELSE 0
    ELSE 0

\* line 79
RemoveSnippets(c) == ReSub(c, [j \in 1..Len(c) |-> SnippetEnd(c, j)], <<>>)

\* line 85: r'https?://[^\\s\\)]+' reads: http, an optional s, ://, then one or
\* more characters other than a backslash, the letter s and a closing
\* parenthesis
UrlEnd(s, j) ==
    LET b == IF MatchAt(s, <<"h", "t", "t", "p", "s", ":", "/", "/">>, j) THEN j + 8
             ELSE IF MatchAt(s, <<"h", "t", "t", "p", ":", "/", "/">>, j) THEN j + 7
             ELSE 0
    IN  IF b # 0 /\ SkipRunNot(s, b, {BS, "s", ")"}) > b
        THEN SkipRunNot(s, b, {BS, "s", ")"})
        ELSE 0

\* line 85
RemoveUrls(c) == ReSub(c, [j \in 1..Len(c) |-> UrlEnd(c, j)], <<>>)

\* lines 91 and 97: r'\\[([^\\]]*)\\]\\([^\\)]*\\)' and r'\\[([^\\]]*)\\]\\[[^\\]]*\\]'
\* read: a backslash, the class [([^\\], a star, then a closing parenthesis
\* that nothing opened.  re.sub raises re.error (unbalanced parenthesis) on
\* every call, whatever the text.
LinkPatternCompiles == FALSE

\* lines 102-107: step 11
RemoveLinkDefinitions(c) ==
    Join(SelectSeq(Split(c, SEP),
                   LAMBDA l : ~(StartsWith(Strip(l), <<"[">>) /\ Find(l, <<"]", ":", " ">>) # 0)),
         SEP)

----------------------------------------------------------------------------
(* Step 12: the table loop.  Its state is a record of the loop's locals:   *)
(* lines, i (0-based, as in the source), content (processed_content) and   *)
(* ph (table_placeholders, a dict kept in insertion order).                *)

\* lines 118 and 122: lines[i].strip().startswith('|')
IsTableLine(l) == StartsWith(Strip(l), <<PIPE>>)

RECURSIVE RunEnd(_, _)
\* lines 122-124: i after the inner while, from i = k
RunEnd(ls, k) ==
    IF k < Len(ls) /\ IsTableLine(ls[k + 1]) THEN RunEnd(ls, k + 1) ELSE k

DigitChar == <<"0", "1", "2", "3", "4", "5", "6", "7", "8", "9">>

RECURSIVE Dec(_)
\* str(n) for n >= 0
Dec(n) == IF n < 10 THEN <<DigitChar[n + 1]>> ELSE Dec(n \div 10) \o <<DigitChar[(n % 10) + 1]>>

PlaceholderPrefix ==
    <<"_", "_", "T", "A", "B", "L", "E", "_", "P", "L", "A", "C", "E", "H", "O",
      "L", "D", "E", "R", "_">>

\* a placeholder that does not count: always ordinal 0
Placeholder_Fixed(n) == PlaceholderPrefix \o <<"0">> \o <<"_", "_">>

\* line 128: f"__TABLE_PLACEHOLDER_{n}__"
Placeholder(n) == PlaceholderPrefix \o Dec(n) \o <<"_", "_">>

\* line 130: table_placeholders[placeholder] = formatted_table
DictSet(ph, key, val) ==
    IF \E k \in 1..Len(ph) : ph[k].placeholder = key
    THEN [k \in 1..Len(ph) |->
             IF ph[k].placeholder = key THEN [placeholder |-> key, table |-> val] ELSE ph[k]]
    ELSE Append(ph, [placeholder |-> key, table |-> val])

\* lines 118-135: one pass through the body of the outer while
LoopBody(st) ==
    IF IsTableLine(st.lines[st.i + 1])
    THEN LET e == RunEnd(st.lines, st.i)
             tt == Join(SubSeq(st.lines, st.i + 1, e), SEP)
             placeholder == Placeholder(Len(st.ph))
         IN  [lines |-> st.lines,
              i |-> e,
              ph |-> DictSet(st.ph, placeholder, format_markdown_table(tt)),
              content |-> ReplaceFirst(st.content, tt, placeholder)]
    ELSE [st EXCEPT !.i = st.i + 1]

RECURSIVE TableLoop(_)
\* lines 117-135: the outer while, to its end
TableLoop(st) == IF st.i < Len(st.lines) THEN TableLoop(LoopBody(st)) ELSE st

\* lines 111-115: the loop's locals on entry
LoopEntry(c) == [lines |-> Split(c, SEP), i |-> 0, ph |-> <<>>, content |-> c]

\* lines 109-137
ExtractTables(c) == TableLoop(LoopEntry(c))

----------------------------------------------------------------------------
(* Steps 13 to 15.                                                         *)

\* lines 141-148: markdown.markdown and BeautifulSoup are libraries outside the
\* repository.  For a one-paragraph text they return its visible text without
\* the surrounding whitespace, which is all this model takes from them.
HtmlText(c) == Strip(c)

RECURSIVE Restore(_, _)
\* lines 153-154
Restore(t, ph) ==
    IF ph = <<>> THEN t
    ELSE Restore(ReplaceAll(t, ph[1].placeholder, ph[1].table), Tail(ph))

\* lines 158-161
Cleanup(t) == Join(NonEmpty(MapStrip(splitlines(t))), SEP)

\* line 165: r'\\n{3,}' reads: a backslash followed by three or more letters n
NewlineRunEnd(s, j) ==
    IF s[j] = BS /\ SkipRun(s, j + 1, {"n"}) - (j + 1) >= 3
    THEN SkipRun(s, j + 1, {"n"})
    ELSE 0

\* line 165: re.sub(r'\\n{3,}', '\\n\\n', s); the template's \n is a newline
Collapse(f) == ReSub(f, [j \in 1..Len(f) |-> NewlineRunEnd(f, j)], <<NL, NL>>)

\* a pass that forgets the text when it raises
PassOutcome_Lost(pre, post, r) == IF r THEN <<>> ELSE post

\* try: x = pass(x)  except: pass  -- the text after a guarded pass that
\* raised (r) or returned post
PassOutcome(pre, post, r) == IF r THEN pre ELSE post

\* lines 8-169 with no fault other than the two patterns that never compile
extract_text_from_markdown(mc) ==
    LET c1 == MetadataStrip(FrontmatterStrip(mc))
        c8 == RemoveUrls(RemoveSnippets(RemoveHtmlComments(RemoveServiceBlocks(
                  RemoveMacros(UnwrapInlineCode(RemoveCodeBlocks(c1)))))))
        st == ExtractTables(RemoveLinkDefinitions(c8))
    IN  Strip(Collapse(Cleanup(Restore(HtmlText(st.content), st.ph))))

----------------------------------------------------------------------------
(* extract_text_from_markdown as a state machine: pc names the pass about  *)
(* to run; raised tells whether the pass that just ran raised.             *)

restVars == <<fmtVars, loopVars, buildVars>>

\* step 1, lines 16-30
StepFrontmatter ==
    /\ pc = "frontmatter"
    /\ content_without_frontmatter' = FrontmatterStrip(markdown_content)
    /\ pc' = "metadata"
    /\ raised' = FALSE
    /\ UNCHANGED <<markdown_content, cleaned_markdown_content, table_placeholders,
                   text, final_text, returned, restVars>>

\* lines 33-45
StepMetadata ==
    /\ pc = "metadata"
    /\ cleaned_markdown_content' = MetadataStrip(content_without_frontmatter)
    /\ pc' = "code_blocks"
    /\ raised' = FALSE
    /\ UNCHANGED <<markdown_content, content_without_frontmatter, table_placeholders,
                   text, final_text, returned, restVars>>

\* a guarded pass over cleaned_markdown_content: try: ... except: pass
GuardedPass(here, next, post, r) ==
    /\ pc = here
    /\ raised' = r
    /\ cleaned_markdown_content' = PassOutcome(cleaned_markdown_content, post, r)
    /\ pc' = next
    /\ UNCHANGED <<markdown_content, content_without_frontmatter, table_placeholders,
                   text, final_text, returned, restVars>>

\* step 2, lines 48-51
StepCodeBlocks ==
    \E r \in BOOLEAN :
        GuardedPass("code_blocks", "inline_code", RemoveCodeBlocks(cleaned_markdown_content), r)

\* step 3, lines 54-57
StepInlineCode ==
    \E r \in BOOLEAN :
        GuardedPass("inline_code", "macros", UnwrapInlineCode(cleaned_markdown_content), r)

\* step 4, lines 60-63
StepMacros ==
    \E r \in BOOLEAN :
        GuardedPass("macros", "service_blocks", RemoveMacros(cleaned_markdown_content), r)

\* step 5, lines 66-69
StepServiceBlocks ==
    \E r \in BOOLEAN :
        GuardedPass("service_blocks", "html_comments",
                    RemoveServiceBlocks(cleaned_markdown_content), r)

\* step 6, lines 72-75
StepHtmlComments ==
    \E r \in BOOLEAN :
        GuardedPass("html_comments", "snippets", RemoveHtmlComments(cleaned_markdown_content), r)

\* step 7, lines 78-81
StepSnippets ==
    \E r \in BOOLEAN :
        GuardedPass("snippets", "urls", RemoveSnippets(cleaned_markdown_content), r)

\* step 8, lines 84-87
StepUrls ==
    \E r \in BOOLEAN :
        GuardedPass("urls", "md_links", RemoveUrls(cleaned_markdown_content), r)

\* step 9, lines 90-93: the pattern does not compile, the pass always raises
StepMdLinks ==
    GuardedPass("md_links", "ref_links", cleaned_markdown_content, ~LinkPatternCompiles)

\* step 10, lines 96-99: the pattern does not compile, the pass always raises
StepRefLinks ==
    GuardedPass("ref_links", "link_defs", cleaned_markdown_content, ~LinkPatternCompiles)

\* step 11, lines 102-107
StepLinkDefs ==
    /\ pc = "link_defs"
    /\ cleaned_markdown_content' = RemoveLinkDefinitions(cleaned_markdown_content)
    /\ pc' = "tables"
    /\ raised' = FALSE
    /\ UNCHANGED <<markdown_content, content_without_frontmatter, table_placeholders,
                   text, final_text, returned, restVars>>

\* step 12, lines 109-137, the whole loop
StepTables ==
    /\ pc = "tables"
    /\ LET st == ExtractTables(cleaned_markdown_content)
       IN  /\ cleaned_markdown_content' = st.content
           /\ table_placeholders' = st.ph
    /\ pc' = "html"
    /\ raised' = FALSE
    /\ UNCHANGED <<markdown_content, content_without_frontmatter,
                   text, final_text, returned, restVars>>

\* step 13, lines 140-150
StepHtml ==
    \E r \in BOOLEAN :
        /\ pc = "html"
        /\ raised' = r
        /\ text' = PassOutcome(cleaned_markdown_content, HtmlText(cleaned_markdown_content), r)
        /\ pc' = "restore"
        /\ UNCHANGED <<markdown_content, content_without_frontmatter,
                       cleaned_markdown_content, table_placeholders,
                       final_text, returned, restVars>>

\* step 14, lines 153-154
StepRestore ==
    /\ pc = "restore"
    /\ text' = Restore(text, table_placeholders)
    /\ pc' = "cleanup"
    /\ raised' = FALSE
    /\ UNCHANGED <<markdown_content, content_without_frontmatter,
                   cleaned_markdown_content, table_placeholders,
                   final_text, returned, restVars>>

\* step 15, lines 158-161
StepCleanup ==
    /\ pc = "cleanup"
    /\ final_text' = Cleanup(text)
    /\ pc' = "collapse"
    /\ raised' = FALSE
    /\ UNCHANGED <<markdown_content, content_without_frontmatter,
                   cleaned_markdown_content, table_placeholders,
                   text, returned, restVars>>

\* lines 164-167
StepCollapse ==
    \E r \in BOOLEAN :
        /\ pc = "collapse"
        /\ raised' = r
        /\ final_text' = PassOutcome(final_text, Collapse(final_text), r)
        /\ pc' = "return"
        /\ UNCHANGED <<markdown_content, content_without_frontmatter,
                       cleaned_markdown_content, table_placeholders,
                       text, returned, restVars>>

\* line 169
StepReturn ==
    /\ pc = "return"
    /\ returned' = Strip(final_text)
    /\ pc' = "done"
    /\ raised' = FALSE
    /\ UNCHANGED <<markdown_content, content_without_frontmatter,
                   cleaned_markdown_content, table_placeholders,
                   text, final_text, restVars>>

NextNorm ==
    \/ StepFrontmatter \/ StepMetadata
    \/ StepCodeBlocks \/ StepInlineCode \/ StepMacros \/ StepServiceBlocks
    \/ StepHtmlComments \/ StepSnippets \/ StepUrls \/ StepMdLinks \/ StepRefLinks
    \/ StepLinkDefs \/ StepTables \/ StepHtml \/ StepRestore \/ StepCleanup
    \/ StepCollapse \/ StepReturn

\* documents: up to n lines of a palette, each line ended or separated by a
\* newline
Documents(palette, n) ==
    {<<>>} \cup { Join(ls, <<NL>>) : ls \in LineSeqs(palette, n) }

MaxNormLines == 2

NormPalette ==
    { <<"t", "i", "t", "l", "e", ":", " ", "t">>,
      <<"a", " ", BT, BT, BT, "b", BT, BT, BT, " ", BT, "c", BT>>,
      <<"<", "!", "-", "-", "h", "-", "-", ">", "/", "/", "/", "s", "/", "/", "/">>,
      <<"[", "t", "]", "(", "u", ")", " ", "h", "t", "t", "p", ":", "/", "/", "x", ".", "y", " ", "z">>,
      <<"|", " ", "A", " ", "|">>,
      <<"|", " ", "1", " ", "|">>,
      <<"a", BS, "n", "n", "n", "n", " ", "b">> }

InitNormWith(docs) ==
    /\ markdown_content \in docs
    /\ content_without_frontmatter = <<>>
    /\ cleaned_markdown_content = <<>>
    /\ text = <<>> /\ final_text = <<>> /\ returned = <<>>
    /\ table_placeholders = <<>>
    /\ pc = "frontmatter"
    /\ raised = FALSE
    /\ IdleFmt /\ IdleLoop /\ IdleBuild

InitNorm == InitNormWith(Documents(NormPalette, MaxNormLines))

SpecNorm == InitNorm /\ [][NextNorm]_vars

----------------------------------------------------------------------------
(* Step 1 alone, over documents with and without frontmatter markers.      *)

MaxFrontLines == 4

FrontPalette ==
    { DASHES, <<"-", "-", "-", "x">>, <<"a">>, <<"b">> }

InitFront == InitNormWith(Documents(FrontPalette, MaxFrontLines))

SpecFront == InitFront /\ [][StepFrontmatter]_vars

----------------------------------------------------------------------------
(* Step 12 alone, one pass through the body of the outer while at a time.  *)

MaxExtractLines == 4

ExtractPalette ==
    { <<"|", " ", "A", " ", "|">>,
      <<"|", " ", "1", " ", "|">>,
      <<"z", "z">>,
      <<"x", " ", "|", " ", "A", " ", "|">> }

\* the text before step 12: lines joined by the source's '\\n'
ExtractInputs ==
    {<<>>} \cup { Join(ls, SEP) : ls \in LineSeqs(ExtractPalette, MaxExtractLines) }

\* lines 111-116
InitExtract ==
    /\ cleaned_markdown_content \in ExtractInputs
    /\ lines = LoopEntry(cleaned_markdown_content).lines
    /\ i = 0
    /\ processed_content = cleaned_markdown_content
    /\ table_placeholders = <<>>
    /\ pc = "tables"
    /\ markdown_content = <<>> /\ content_without_frontmatter = <<>>
    /\ text = <<>> /\ final_text = <<>> /\ returned = <<>> /\ raised = FALSE
    /\ IdleFmt /\ IdleBuild

LoopState == [lines |-> lines, i |-> i, ph |-> table_placeholders, content |-> processed_content]

LoopUnchanged ==
    UNCHANGED <<markdown_content, content_without_frontmatter, cleaned_markdown_content,
                text, final_text, returned, pc, raised, lines, fmtVars, buildVars>>

\* lines 118-133: the body at a pipe line
TableBlock ==
    /\ pc = "tables"
    /\ i < Len(lines)
    /\ IsTableLine(lines[i + 1])
    /\ i' = LoopBody(LoopState).i
    /\ table_placeholders' = LoopBody(LoopState).ph
    /\ processed_content' = LoopBody(LoopState).content
    /\ LoopUnchanged

\* lines 134-135: the body at any other line
SkipLine ==
    /\ pc = "tables"
    /\ i < Len(lines)
    /\ ~IsTableLine(lines[i + 1])
    /\ i' = LoopBody(LoopState).i
    /\ table_placeholders' = LoopBody(LoopState).ph
    /\ processed_content' = LoopBody(LoopState).content
    /\ LoopUnchanged

\* lines 117 and 137: the loop ends
LoopExit ==
    /\ pc = "tables"
    /\ i >= Len(lines)
    /\ cleaned_markdown_content' = processed_content
    /\ pc' = "html"
    /\ UNCHANGED <<markdown_content, content_without_frontmatter, text, final_text,
                   returned, raised, table_placeholders, loopVars, fmtVars, buildVars>>

NextExtract == TableBlock \/ SkipLine \/ LoopExit

SpecExtract == InitExtract /\ [][NextExtract]_vars

----------------------------------------------------------------------------
(* Claims about extract_text_from_markdown.                                *)

RECURSIVE ExactClosingIndex(_, _)
\* the first k >= from whose line is exactly ---, 0 when none
ExactClosingIndex(ls, from) ==
    IF from > Len(ls) THEN 0
    ELSE IF ls[from] = DASHES THEN from
    ELSE ExactClosingIndex(ls, from + 1)

\* C3: the frontmatter is removed only when the first line is exactly --- and
\* a later line is exactly ---; the result is then the lines after the first
\* closing line, unchanged, as separate lines, in order; in every other case
\* the result equals the input.
C3_FrontmatterStrip ==
    pc = "metadata" =>
        LET ls == splitlines(markdown_content)
            k == ExactClosingIndex(ls, 2)
        IN  IF ls # <<>> /\ ls[1] = DASHES /\ k > 0
            THEN splitlines(content_without_frontmatter) = SubSeq(ls, k + 1, Len(ls))
            ELSE content_without_frontmatter = markdown_content

\* the passes in the order the function runs them
Successor ==
    [p \in {"frontmatter", "metadata", "code_blocks", "inline_code", "macros",
            "service_blocks", "html_comments", "snippets", "urls", "md_links",
            "ref_links", "link_defs", "tables", "html", "restore", "cleanup",
            "collapse", "return"} |->
        CASE p = "frontmatter" -> "metadata"
          [] p = "metadata" -> "code_blocks"
          [] p = "code_blocks" -> "inline_code"
          [] p = "inline_code" -> "macros"
          [] p = "macros" -> "service_blocks"
          [] p = "service_blocks" -> "html_comments"
          [] p = "html_comments" -> "snippets"
          [] p = "snippets" -> "urls"
          [] p = "urls" -> "md_links"
          [] p = "md_links" -> "ref_links"
          [] p = "ref_links" -> "link_defs"
          [] p = "link_defs" -> "tables"
          [] p = "tables" -> "html"
          [] p = "html" -> "restore"
          [] p = "restore" -> "cleanup"
          [] p = "cleanup" -> "collapse"
          [] p = "collapse" -> "return"
          [] p = "return" -> "done"]

\* the passes written inside try/except
GuardedPasses ==
    {"code_blocks", "inline_code", "macros", "service_blocks", "html_comments",
     "snippets", "urls", "md_links", "ref_links", "html", "collapse"}

\* the text pass p receives, and the text it hands to the next pass
Received(p) == IF p = "collapse" THEN final_text ELSE cleaned_markdown_content
Handed(p) ==
    IF p = "collapse" THEN final_text
    ELSE IF p = "html" THEN text
    ELSE cleaned_markdown_content

\* C2: when a guarded pass raises, the next pass receives exactly the text the
\* raising pass received; whether or not a pass raises, the pass that runs next
\* is the one that follows it in the pipeline, up to the return, and what is
\* returned is a string.
C2_FaultTolerant ==
    /\ [][\A p \in DOMAIN Successor :
              pc = p => /\ pc' = Successor[p]
                        /\ (p \in GuardedPasses /\ raised') => Handed(p)' = Received(p)]_vars
    /\ [](pc \in DOMAIN Successor \cup {"done"})
    /\ [](pc = "done" => IsString(returned))

\* the code-block pass raised on a text that holds a fenced block: the block
\* is still there for the next pass
C2_Witness ==
    /\ pc = "inline_code"
    /\ raised
    /\ RemoveCodeBlocks(cleaned_markdown_content) # cleaned_markdown_content

----------------------------------------------------------------------------
(* Claims about the table loop, stated over the lines it was entered with. *)

\* the token of the block of ordinal n
ClaimToken(n) == PlaceholderPrefix \o Dec(n) \o <<"_", "_">>

RECURSIVE ByPosition(_, _, _)
\* the lines with every maximal run of pipe lines replaced, in place, by the
\* token of its ordinal
ByPosition(ls, k, n) ==
    IF k >= Len(ls) THEN <<>>
    ELSE IF IsTableLine(ls[k + 1])
         THEN <<ClaimToken(n)>> \o ByPosition(ls, RunEnd(ls, k), n + 1)
         ELSE <<ls[k + 1]>> \o ByPosition(ls, k + 1, n)

RECURSIVE Blocks(_, _)
\* the texts of the maximal runs of pipe lines, in order of appearance
Blocks(ls, k) ==
    IF k >= Len(ls) THEN <<>>
    ELSE IF IsTableLine(ls[k + 1])
         THEN <<Join(SubSeq(ls, k + 1, RunEnd(ls, k)), SEP)>> \o Blocks(ls, RunEnd(ls, k))
         ELSE Blocks(ls, k + 1)

ExpectedMapping(ls) ==
    [n \in 1..Len(Blocks(ls, 0)) |->
        [placeholder |-> ClaimToken(n - 1), table |-> format_markdown_table(Blocks(ls, 0)[n])]]

\* C9: after the loop every maximal run of pipe lines has been replaced, at its
\* own position, by the token of its ordinal; the mapping holds one entry per
\* block with its formatted text; the other lines are unchanged and no pipe
\* line remains.
C9_TableExtraction ==
    pc = "html" =>
        /\ cleaned_markdown_content = Join(ByPosition(lines, 0, 0), SEP)
        /\ table_placeholders = ExpectedMapping(lines)
        /\ \A l \in {Split(cleaned_markdown_content, SEP)[k] :
                        k \in 1..Len(Split(cleaned_markdown_content, SEP))} : ~IsTableLine(l)

\* the texts that two different blocks share
RepeatedBlockTexts(ls) ==
    LET b == Blocks(ls, 0)
    IN  {b[x] : x \in {x \in 1..Len(b) : \E y \in 1..Len(b) : y # x /\ b[y] = b[x]}}

\* no line outside the table blocks holds a pipe
NoPipeOutsideBlocks(ls) ==
    \A k \in 1..Len(ls) :
        IsTableLine(ls[k]) \/ (\A j \in 1..Len(ls[k]) : ls[k][j] # PIPE)

\* C10 as stated: when two blocks have the same text, the second block's raw
\* pipe text is still in the text after the loop.
C10_SecondBlockLeaks ==
    pc = "html" =>
        \A t \in RepeatedBlockTexts(lines) : Find(cleaned_markdown_content, t) # 0

\* C10 as amended: when two blocks have the same text and no line outside the
\* table blocks holds a pipe, every block, the repeated ones included, is
\* replaced at its own position by the token of its own ordinal and has its
\* own mapping entry: no raw pipe text remains after the loop.
C10_RepeatedBlocksReplaced ==
    (pc = "html" /\ RepeatedBlockTexts(lines) # {} /\ NoPipeOutsideBlocks(lines)) =>
        /\ cleaned_markdown_content = Join(ByPosition(lines, 0, 0), SEP)
        /\ table_placeholders = ExpectedMapping(lines)
        /\ \A t \in RepeatedBlockTexts(lines) : Find(cleaned_markdown_content, t) = 0

\* | A |, zz, | A |: both blocks replaced, by tokens 0 and 1
C10_Witness ==
    /\ pc = "html"
    /\ lines = << <<"|", " ", "A", " ", "|">>, <<"z", "z">>, <<"|", " ", "A", " ", "|">> >>
    /\ cleaned_markdown_content =
           Join(<<ClaimToken(0), <<"z", "z">>, ClaimToken(1)>>, SEP)
    /\ Len(table_placeholders) = 2

----------------------------------------------------------------------------
(* process_documentation.  files is the traversal of os.walk, flattened:   *)
(* each file has a name, its content, and fault, the error (if any) that   *)
(* open() or read() raises for it.  log holds one tag per printed line.    *)

\* line 244: the minimum length to save
MinLength == 50

\* the filter taken as "at least", not "more than"
Accepts_AtLeast(c) == c # <<>> /\ Len(Strip(c)) >= MinLength

\* line 244: clean_text and len(clean_text.strip()) > 50
Accepts(c) == c # <<>> /\ Len(Strip(c)) > MinLength

\* line 234: file_name.endswith('.md')
IsMarkdownFile(name) == EndsWith(name, <<".", "m", "d">>)

\* an error at one file ends the whole run
OnFileError_Abort == "aborted"

\* lines 254-255: except Exception as e: print(...); the for loop goes on
OnFileError == "walk"

\* the output is written whether or not there is data
HasData_Always(d) == TRUE

\* line 257: if documentation_data
HasData(d) == d # <<>>

idleRest == <<fmtVars, normVars, table_placeholders, loopVars>>

\* lines 233-234: a file that is not a .md file is passed over
SkipOtherFile ==
    /\ bpc = "walk"
    /\ file_idx < Len(files)
    /\ ~IsMarkdownFile(files[file_idx + 1].name)
    /\ file_idx' = file_idx + 1
    /\ log' = Append(log, "IGNORED")
    /\ UNCHANGED <<files, documentation_data, processed_count, clean_text,
                   output_file, open_count, bpc, idleRest>>

\* lines 238-252: a .md file that is read and normalised without error
ProcessFile ==
    /\ bpc = "walk"
    /\ file_idx < Len(files)
    /\ IsMarkdownFile(files[file_idx + 1].name)
    /\ files[file_idx + 1].fault = "none"
    /\ clean_text' = extract_text_from_markdown(files[file_idx + 1].content)
    /\ IF Accepts(clean_text')
       THEN /\ documentation_data' =
                   Append(documentation_data,
                          [file_path |-> files[file_idx + 1].name, content |-> clean_text'])
            /\ processed_count' = processed_count + 1
            /\ log' = Append(log, "OK")
       ELSE /\ log' = Append(log, "SKIP")
            /\ UNCHANGED <<documentation_data, processed_count>>
    /\ file_idx' = file_idx + 1
    /\ UNCHANGED <<files, output_file, open_count, bpc, idleRest>>

\* lines 238-240 and 254-255: open() or read() raises; the error is printed
FileError ==
    /\ bpc = "walk"
    /\ file_idx < Len(files)
    /\ IsMarkdownFile(files[file_idx + 1].name)
    /\ files[file_idx + 1].fault # "none"
    /\ log' = Append(log, "ERR")
    /\ bpc' = OnFileError
    /\ file_idx' = file_idx + 1
    /\ UNCHANGED <<files, documentation_data, processed_count, clean_text,
                   output_file, open_count, idleRest>>

\* lines 257-266: the traversal is over and there is data; open() may raise
\* (nothing written), json.dump may raise (a partial file), or all is written
WriteOutput ==
    /\ bpc = "walk"
    /\ file_idx = Len(files)
    /\ HasData(documentation_data)
    /\ open_count' = open_count + 1
    /\ \E outcome \in {"written", "open_failed", "dump_failed"} :
           /\ output_file' = CASE outcome = "written" -> "written"
                               [] outcome = "dump_failed" -> "partial"
                               [] outcome = "open_failed" -> output_file
           /\ log' = Append(log, IF outcome = "written" THEN "SUCCESS" ELSE "ERR_SAVE")
    /\ bpc' = "done"
    /\ UNCHANGED <<files, file_idx, documentation_data, processed_count, clean_text, idleRest>>

\* lines 267-268: the traversal is over and there is no data
WarnNoData ==
    /\ bpc = "walk"
    /\ file_idx = Len(files)
    /\ ~HasData(documentation_data)
    /\ log' = Append(log, "WARN")
    /\ bpc' = "done"
    /\ UNCHANGED <<files, file_idx, documentation_data, processed_count, clean_text,
                   output_file, open_count, idleRest>>

NextBuild == SkipOtherFile \/ ProcessFile \/ FileError \/ WriteOutput \/ WarnNoData

MaxFiles == 3

\* a text of n letters
Letters(n) == [k \in 1..n |-> "a"]

\* files of the traversal: cleaned lengths 50 and 51, a padded text, a file of
\* metadata only, files that cannot be opened or decoded, a file that is not .md
FilePalette ==
    { [name |-> <<"a", ".", "m", "d">>, fault |-> "none", content |-> Letters(MinLength)],
      [name |-> <<"b", ".", "m", "d">>, fault |-> "none", content |-> Letters(MinLength + 1)],
      [name |-> <<"c", ".", "m", "d">>, fault |-> "none",
       content |-> <<" ">> \o Letters(MinLength) \o <<" ", NL>>],
      [name |-> <<"d", ".", "m", "d">>, fault |-> "none",
       content |-> <<"t", "i", "t", "l", "e", ":", " ", "x", NL>>],
      [name |-> <<"e", ".", "m", "d">>, fault |-> "open", content |-> Letters(MinLength + 1)],
      [name |-> <<"f", ".", "m", "d">>, fault |-> "decode", content |-> Letters(MinLength + 1)],
      [name |-> <<"g", ".", "t", "x", "t">>, fault |-> "none", content |-> Letters(MinLength + 1)] }

\* lines 227-230
InitBuild ==
    /\ files \in {<<>>} \cup LineSeqs(FilePalette, MaxFiles)
    /\ file_idx = 0
    /\ documentation_data = <<>>
    /\ processed_count = 0
    /\ clean_text = <<>>
    /\ output_file \in {"absent", "old"}
    /\ open_count = 0
    /\ log = <<>>
    /\ bpc = "walk"
    /\ IdleFmt /\ IdleNorm /\ table_placeholders = <<>> /\ IdleLoop

SpecBuild == InitBuild /\ [][NextBuild]_vars

----------------------------------------------------------------------------
(* Claims about process_documentation.                                     *)

IsPrefix(a, b) == Len(a) <= Len(b) /\ SubSeq(b, 1, Len(a)) = a

\* the step handles a .md file that is read and normalised without error
OkFileStep ==
    /\ bpc = "walk" /\ file_idx < Len(files) /\ file_idx' = file_idx + 1
    /\ IsMarkdownFile(files[file_idx + 1].name)
    /\ files[file_idx + 1].fault = "none"

\* C6: for every .md file read and normalised without error exactly one record
\* {file_path, content} is appended if the cleaned content is non-empty and its
\* trimmed length is greater than 50, and none otherwise (50 excluded, 51
\* included); a record once appended is never modified or removed; the
\* processed counter always equals the number of records.
C6_MinimumLength ==
    /\ [][OkFileStep =>
             /\ (clean_text' # <<>> /\ Len(Strip(clean_text')) > 50)
                    => documentation_data' =
                           Append(documentation_data,
                                  [file_path |-> files[file_idx + 1].name,
                                   content |-> clean_text'])
             /\ ~(clean_text' # <<>> /\ Len(Strip(clean_text')) > 50)
                    => documentation_data' = documentation_data
             /\ Len(clean_text') = 50 => documentation_data' = documentation_data
             /\ Len(clean_text') = 51 => Len(documentation_data') = Len(documentation_data) + 1]_vars
    /\ [][IsPrefix(documentation_data, documentation_data')]_vars
    /\ [](processed_count = Len(documentation_data))

\* a text of 51 characters was kept and a text of exactly 50 was just skipped
C6_Witness ==
    /\ Len(clean_text) = 50
    /\ log # <<>> /\ log[Len(log)] = "SKIP"
    /\ \E k \in 1..Len(documentation_data) : Len(documentation_data[k].content) = 51

\* the step handles a .md file whose open() or read() raises
FaultFileStep ==
    /\ bpc = "walk" /\ file_idx < Len(files) /\ log' # log
    /\ IsMarkdownFile(files[file_idx + 1].name)
    /\ files[file_idx + 1].fault # "none"

\* C7: when reading or decoding a file fails, no record is added, the records
\* collected so far are unchanged and the loop goes on with the next file;
\* whatever files fail, the loop handles every file, every file that does not
\* fail is processed, and the run comes to its final write-or-warn step: each
\* step of the loop handles the next file or, when none is left, is the final
\* step, so the number of files left to handle decreases until that step.
C7_FaultIsolation ==
    /\ [][FaultFileStep =>
             /\ documentation_data' = documentation_data
             /\ processed_count' = processed_count
             /\ file_idx' = file_idx + 1
             /\ bpc' = "walk"]_vars
    /\ [][bpc = "walk" =>
             \/ file_idx < Len(files) /\ file_idx' = file_idx + 1 /\ bpc' = "walk"
             \/ file_idx = Len(files) /\ file_idx' = file_idx /\ bpc' = "done"]_vars
    /\ [](bpc \in {"walk", "done"} /\ file_idx \in 0..Len(files))
    /\ [](bpc = "walk" => Len(log) = file_idx)
    /\ [](\A k \in 1..file_idx :
              (IsMarkdownFile(files[k].name) /\ files[k].fault = "none")
                  => log[k] \in {"OK", "SKIP"})
    /\ [](bpc = "done" =>
              /\ file_idx = Len(files)
              /\ log[Len(log)] \in {"SUCCESS", "ERR_SAVE", "WARN"})

\* a file failed, a later file was kept, and the run came to its final step
C7_Witness ==
    /\ bpc = "done"
    /\ \E k \in 1..Len(files) :
           /\ log[k] = "ERR"
           /\ \E j \in (k + 1)..Len(files) : log[j] = "OK"

\* C8: the output file is opened for writing at most once, only after every
\* file of the traversal has been handled and only if a record was accepted; a
\* run that accepts no record leaves the output file as it was, prints the
\* warning and ends.
C8_WrittenOnce ==
    /\ [](open_count <= 1)
    /\ [][open_count' # open_count =>
             /\ open_count' = open_count + 1
             /\ file_idx = Len(files)
             /\ documentation_data # <<>>
             /\ bpc' = "done"]_vars
    /\ [][output_file' # output_file => open_count' # open_count]_vars
    /\ [](bpc = "done" /\ documentation_data = <<>> =>
              /\ open_count = 0
              /\ output_file \in {"absent", "old"}
              /\ log[Len(log)] = "WARN")

\* two files were handled, and then the output was written, once
C8_Witness ==
    /\ bpc = "done"
    /\ Len(files) >= 2
    /\ open_count = 1
    /\ output_file = "written"

====
